---- MODULE Spec2Model ----
(***************************************************************************)
(* node-dymo-printer: the DymoServices class of src/src/dymo-services.ts   *)
(* (constructor, print, printBitmap, init, sendDataToPrinter and the four  *)
(* delivery channels) together with convertImageToBitmap and               *)
(* rotateImage90DegreesCounterClockwise of src/src/image-services.ts.      *)
(*                                                                         *)
(* One DymoServices instance is modelled.  Its fields are `config` and     *)
(* `chunks`; every print call is a little process whose position is        *)
(* calls[c].pc and whose observable input/output operations (sockets,      *)
(* spawned processes, file writes) are logged in calls[c].io.              *)
(***************************************************************************)
EXTENDS Integers, Sequences, FiniteSets, TLC

\* ------------------------------------------------------------------ bounds
MaxCalls == 2
MaxCopies == 2
MaxPrinters == 2

Calls == 1..MaxCalls

\* ------------------------------------------------------------ byte buffers
\* String.prototype.charCodeAt(0) for the characters the protocol uses.
CharCodeAt(ch) ==
    CASE ch = "*" -> 42
      [] ch = "B" -> 66
      [] ch = "D" -> 68
      [] ch = "E" -> 69
      [] ch = "G" -> 71
      [] ch = "L" -> 76
      [] ch = "e" -> 101
      [] ch = "h" -> 104

\* Buffer.from(array): every element is stored modulo 256 (value & 255).
BufferFrom(arr) == [i \in DOMAIN arr |-> arr[i] % 256]

\* Buffer.concat(list)
RECURSIVE BufferConcat(_)
BufferConcat(list) ==
    IF list = <<>> THEN <<>> ELSE Head(list) \o BufferConcat(Tail(list))

CMD_RESET == BufferFrom(<<27, CharCodeAt("*")>>)
CMD_FULL_FORM_FEED == BufferFrom(<<27, CharCodeAt("E")>>)
CMD_SHORT_FORM_FEED == BufferFrom(<<27, CharCodeAt("G")>>)
CMD_TEXT_SPEED_MODE == BufferFrom(<<27, CharCodeAt("h")>>)
CMD_DENSITY_NORMAL == BufferFrom(<<27, CharCodeAt("e")>>)
CMD_NO_DOT_TAB == BufferFrom(<<27, CharCodeAt("B"), 0>>)
CMD_START_ESC == BufferFrom([i \in 1..313 |-> 27])

\* Math.ceil(a / 8) for a >= 0
CeilDiv8(a) == (a + 7) \div 8

\* ------------------------------------------------------------------ images
\* A Jimp image: bitmap.width, bitmap.height and the red channel of every
\* pixel, red[width * y + x] being bitmap.data[idx] for the idx that scan()
\* hands to its callback for pixel (x, y).
ImageIds == {"black8x8", "zeroWidth", "mixed2x9", "tall1x2040", "tall1x2041"}

Image(id) ==
    CASE id = "black8x8" ->
           [width |-> 8, height |-> 8, red |-> [p \in 0..63 |-> 0]]
      [] id = "zeroWidth" ->
           [width |-> 0, height |-> 8, red |-> [p \in {} |-> 0]]
      [] id = "mixed2x9" ->
           [width |-> 2, height |-> 9,
            red |-> [p \in 0..17 |-> <<0, 49, 50, 255, 0>>[(p % 5) + 1]]]
      [] id = "tall1x2040" ->
           [width |-> 1, height |-> 2040,
            red |-> [p \in 0..2039 |-> IF p % 3 = 0 THEN 0 ELSE 255]]
      [] id = "tall1x2041" ->
           [width |-> 1, height |-> 2041,
            red |-> [p \in 0..2040 |-> IF p % 3 = 0 THEN 0 ELSE 255]]

\* rotateImage90DegreesCounterClockwise: the clone has the previous height as
\* width and the previous width as height; pixel (x, y) of the result is pixel
\* (previousWidth - 1 - y, x) of the original.
rotateImage90DegreesCounterClockwise(image) ==
    LET w == image.height
        h == image.width
    IN [width |-> w, height |-> h,
        red |-> [p \in 0..(w * h - 1) |->
                   LET x == p % w
                       y == p \div w
                   IN image.red[image.width * x + (image.width - 1 - y)]]]

setBitMirrored(value, bitIndex) ==
    LET bitMask == 2 ^ (7 - bitIndex)
    IN IF (value \div bitMask) % 2 = 1 THEN value ELSE value + bitMask

\* setBit(value, bitIndex): value | (1 << bitIndex)
setBit(value, bitIndex) ==
    LET bitMask == 2 ^ bitIndex
    IN IF (value \div bitMask) % 2 = 1 THEN value ELSE value + bitMask

\* The scan() callback applied to the pixels x..xEnd of row y that fall in one
\* byte of the row, starting from the byte's current value.
RECURSIVE ScanByte(_, _, _, _, _)
ScanByte(image, y, x, xEnd, value) ==
    IF x > xEnd THEN value
    ELSE LET black == image.red[image.width * y + x] < 50
             bitIndex == <<7, 6, 5, 4, 3, 2, 1, 0>>[(x % 8) + 1]
         IN ScanByte(image, y, x + 1, xEnd,
                     IF black THEN setBit(value, bitIndex) ELSE value)

convertImageToBitmapFloorBytes(image) ==
    IF image.width = 0 \/ image.height = 0 THEN <<>>
    ELSE [r \in 1..image.height |->
            [b \in 1..(image.width \div 8) |->
               ScanByte(image, r - 1, 8 * (b - 1), 8 * b - 1, 0)]]

\* convertImageToBitmap: scan() visits every pixel in raster order; a row is
\* pushed (Math.ceil(width / 8) zero bytes) when its first pixel is visited, so
\* an image without pixels yields no row at all.
convertImageToBitmap(image) ==
    IF image.width = 0 \/ image.height = 0 THEN <<>>
    ELSE [r \in 1..image.height |->
            [b \in 1..CeilDiv8(image.width) |->
               LET last == IF 8 * b - 1 < image.width - 1
                           THEN 8 * b - 1 ELSE image.width - 1
               IN ScanByte(image, r - 1, 8 * (b - 1), last, 0)]]

\* The bitmap print() hands to printBitmap for each image of the catalogue.
BitmapOf ==
    [id \in ImageIds |->
       convertImageToBitmap(rotateImage90DegreesCounterClockwise(Image(id)))]


\* ----------------------------------------------------------- optional values
\* A value that may be undefined: <<>> is undefined, <<v>> is the value v.
Undefined == <<>>
Some(v) == <<v>>
\* JavaScript truthiness of an optional string: defined and not empty.
Truthy(opt) == opt # Undefined /\ opt[1] # ""

\* ----------------------------------------------------------- configuration
\* PrinterConfig: every field is optional.
Cfg(interface, host, port, deviceId, device) ==
    [interface |-> interface, host |-> host, port |-> port,
     deviceId |-> deviceId, device |-> device]

EmptyConfig == Cfg(Undefined, Undefined, Undefined, Undefined, Undefined)

\* The configuration objects handed to the constructor.
Configs ==
    { EmptyConfig,
      Cfg(Some("NETWORK"), Some("10.0.0.5"), Some(9100), Undefined, Undefined),
      Cfg(Some("NETWORK"), Undefined, Undefined, Undefined, Undefined),
      Cfg(Some("NETWORK"), Some("10.0.0.5"), Undefined, Undefined, Undefined),
      Cfg(Some("NETWORK"), Undefined, Some(9101), Undefined, Undefined),
      Cfg(Some("CUPS"), Undefined, Undefined, Undefined, Undefined),
      Cfg(Some("CUPS"), Undefined, Undefined, Some(""), Undefined),
      Cfg(Some("WINDOWS"), Undefined, Undefined, Undefined, Undefined),
      Cfg(Some("WINDOWS"), Undefined, Undefined, Some(""), Undefined),
      Cfg(Some("DEVICE"), Undefined, Undefined, Undefined, Undefined),
      Cfg(Some("DEVICE"), Undefined, Undefined, Undefined, Some("")),
      Cfg(Some("CUPS"), Undefined, Undefined, Some("DYMO_LabelWriter_450"), Undefined),
      Cfg(Some("WINDOWS"), Undefined, Undefined, Some("DYMO LabelWriter 450"), Undefined),
      Cfg(Some("DEVICE"), Undefined, Undefined, Undefined, Some("/dev/usb/lp0")),
      Cfg(Some("BLUETOOTH"), Undefined, Undefined, Undefined, Undefined),
      Cfg(Some("cups"), Undefined, Undefined, Some("DYMO_LabelWriter_450"), Undefined),
      Cfg(Some(""), Undefined, Undefined, Undefined, Undefined) }

\* The constructor's argument: a configuration, or no argument at all.
CtorArgs == {Undefined} \cup {Some(cfg) : cfg \in Configs}

INTERFACES == <<"NETWORK", "CUPS", "WINDOWS", "DEVICE">>

Includes(seq, v) == \E i \in DOMAIN seq : seq[i] = v

validateConfigAcceptsAll(arg) ==
    IF arg = Undefined THEN "TypeError" ELSE "ok"

\* validateConfig(config): "ok", or the error it throws.  Reading
\* config.interface of an undefined config is a TypeError.
validateConfig(arg) ==
    IF arg = Undefined THEN "TypeError"
    ELSE IF Truthy(arg[1].interface) /\ ~Includes(INTERFACES, arg[1].interface[1])
         THEN "InvalidInterface"
         ELSE "ok"

\* ---------------------------------------------------------------- platform
Platforms == {"win32", "darwin", "linux", "freebsd"}

\* ---------------------------------------------------------------- printers
\* Display names are sequences of characters.
UpperCase == <<"A","B","C","D","E","F","G","H","I","J","K","L","M",
               "N","O","P","Q","R","S","T","U","V","W","X","Y","Z">>
LowerCase == <<"a","b","c","d","e","f","g","h","i","j","k","l","m",
               "n","o","p","q","r","s","t","u","v","w","x","y","z">>

\* String.prototype.toLowerCase
toLowerCase(str) ==
    [i \in DOMAIN str |->
       IF \E k \in DOMAIN UpperCase : UpperCase[k] = str[i]
       THEN LowerCase[CHOOSE k \in DOMAIN UpperCase : UpperCase[k] = str[i]]
       ELSE str[i]]

\* String.prototype.indexOf (0-based, -1 when absent)
indexOf(str, sub) ==
    LET hits == {i \in 1..(Len(str) - Len(sub) + 1) :
                   SubSeq(str, i, i + Len(sub) - 1) = sub}
    IN IF hits = {} THEN -1
       ELSE (CHOOSE i \in hits : \A j \in hits : i <= j) - 1

PrinterCatalog ==
    { [deviceId |-> "HP_LaserJet", name |-> <<"H","P"," ","L","J">>],
      [deviceId |-> "DYM_O", name |-> <<"D","Y","M"," ","O">>],
      [deviceId |-> "DYMO_LabelWriter_450", name |-> <<"D","Y","M","O"," ","L","W">>],
      [deviceId |-> "My_Dymo", name |-> <<"M","y"," ","D","y","m","o">>] }

\* What an enumeration can return: up to MaxPrinters different printers.
PrinterLists ==
    {<<>>} \cup
    UNION { {l \in [1..n -> PrinterCatalog] :
               \A i, j \in 1..n : i # j => l[i] # l[j]} : n \in 1..MaxPrinters }

IsDymoCaseSensitive(printer) ==
    printer.name # <<>> /\ indexOf(printer.name, <<"d","y","m","o">>) # -1

\* The predicate of printers.find(...) in sendDataToPrinter.
IsDymo(printer) ==
    printer.name # <<>> /\ indexOf(toLowerCase(printer.name), <<"d","y","m","o">>) # -1

FindIndexOrFirst(printers) ==
    LET hits == {i \in DOMAIN printers : IsDymo(printers[i])}
    IN IF hits = {} THEN (IF printers = <<>> THEN 0 ELSE 1)
       ELSE CHOOSE i \in hits : \A j \in hits : i <= j

\* Array.prototype.find: the index of the first match, 0 when there is none.
FindIndex(printers) ==
    LET hits == {i \in DOMAIN printers : IsDymo(printers[i])}
    IN IF hits = {} THEN 0 ELSE CHOOSE i \in hits : \A j \in hits : i <= j


\* ==================================================================== state
VARIABLES
    platform,   \* process.platform, fixed for the life of the process
    instance,   \* "none" before `new DymoServices(..)`, then "ok" or "threw"
    ctorArg,    \* the argument the constructor was called with
    config,     \* this.config
    chunks,     \* this.chunks
    builder,    \* the call whose printBitmap last rebuilt this.chunks, 0 = none
    calls,      \* the print calls made on the instance
    proc,       \* one run of execute(): the child process and its promise
    raster,     \* one run of convertImageToBitmap()
    encoder,    \* one run of init()
    lister      \* one run of listPrintersMacLinux()

vars == <<platform, instance, ctorArg, config, chunks, builder, calls, proc, raster, encoder, lister>>

\* The variables of a DymoServices instance and its calls.
service == <<platform, instance, ctorArg, config, chunks, builder, calls>>

IS_WINDOWS == platform = "win32"
IS_MACOS == platform = "darwin"
IS_LINUX == platform = "linux"

IdleCall ==
    [pc |-> "idle",            \* position of the call
     via |-> "none",           \* entry point: "print" or "printBitmap"
     image |-> "none",         \* the image handed to print()
     imageBuffer |-> Undefined,\* the bitmap handed to printBitmap
     printCount |-> 0,
     buffer |-> <<>>,          \* the buffer a pending socket will write
     listed |-> FALSE,         \* listPrinters() has resolved
     printers |-> <<>>,        \* the list listPrinters() resolved with
     found |-> 0,              \* index in `printers` of the match, 0 = none
     io |-> <<>>,              \* the call's input/output operations, in order
     error |-> "",             \* why the call failed
     report |-> "",            \* what the delivery channel reported last
     overlapped |-> FALSE]     \* another call was in flight during this one

\* What execute()'s promise settles with: the resolved text, or the parts of
\* the rejection message.
Outcome(kind, code, stderr, stdout) ==
    [kind |-> kind, code |-> code, stderr |-> stderr, stdout |-> stdout]

IdleProc ==
    [pc |-> "none",            \* "none", "running", "exited", "failed"
     stdin |-> <<>>,           \* what execute() did with the child's stdin
     stdout |-> <<>>,          \* the array `stdout`
     stderr |-> <<>>,          \* the array `stderr`
     promise |-> "pending",
     value |-> Outcome("", Undefined, <<>>, <<>>),
     warned |-> FALSE,         \* console.warn was called
     events |-> <<>>]          \* the events the child emitted, in order

IdleRaster == [pc |-> "none", image |-> Undefined, bitmap |-> <<>>]

IdleEncoder == [pc |-> "none", labelLineWidth |-> 0, labelLength |-> 0, chunks |-> <<>>]

IdleLister ==
    [pc |-> "none",        \* "none", "enumerating", "probing", "resolved", "rejected"
     rows |-> <<>>,        \* the rows lpstat -e printed
     stdout |-> <<>>,      \* what execute('lpstat', ['-e']) resolved with
     printers |-> <<>>,    \* the array `printers`
     probes |-> <<>>,      \* the promises of the probes: undefined while pending
     order |-> <<>>,       \* the probes in the order they settled
     result |-> <<>>]      \* what listPrintersMacLinux resolved with

Settled == {"resolved", "rejected", "threw"}
InFlight(d) == calls[d].pc \notin (Settled \cup {"idle"})

Init ==
    /\ platform \in Platforms
    /\ instance = "none"
    /\ ctorArg = Undefined
    /\ config = EmptyConfig
    /\ chunks = <<>>
    /\ builder = 0
    /\ calls = [c \in Calls |-> IdleCall]
    /\ proc = IdleProc
    /\ raster = IdleRaster
    /\ encoder = IdleEncoder
    /\ lister = IdleLister

\* ----------------------------------------------------------------- execute
MaxChunks == 3

\* Chunks the child writes to its stdout and stderr, as character sequences.
StdoutChunks == {<<"o", "k">>, <<"x">>}
StderrChunks == {<<"w">>}
ExitStatuses == {Some(0), Some(1), Undefined}
Commands == {"lp", ""}
CommandArgs == {[isArray |-> TRUE, items |-> <<"-d", "DYMO">>],
                [isArray |-> FALSE, items |-> <<>>]}
StdinBuffers == {Undefined, Some(<<27, 69>>)}

\* array.join('')
RECURSIVE Join(_)
Join(arr) == IF arr = <<>> THEN <<>> ELSE Head(arr) \o Join(Tail(arr))

\* resolve() and reject() of a promise: the first one settles it.
resolve(p, v) ==
    IF p.promise = "pending" THEN [p EXCEPT !.promise = "resolved", !.value = v] ELSE p

reject(p, v) ==
    IF p.promise = "pending" THEN [p EXCEPT !.promise = "rejected", !.value = v] ELSE p

Event(ev, code, data) == [ev |-> ev, code |-> code, data |-> data]

onExitStderrFails(p, code) ==
    IF code = Some(0) /\ Len(p.stderr) = 0
    THEN resolve(p, Outcome("ok", Undefined, <<>>, Join(p.stdout)))
    ELSE reject(p, Outcome("exit", code, Join(p.stderr), Join(p.stdout)))

\* proces.on('exit', function (code) {..})
onExit(p, code) ==
    IF code = Some(0)
    THEN resolve([p EXCEPT !.warned = Len(p.stderr) > 0],
                 Outcome("ok", Undefined, <<>>, Join(p.stdout)))
    ELSE reject(p, Outcome("exit", code, Join(p.stderr), Join(p.stdout)))

\* proces.on('error', ..): the message names the error only.
onError(p) == reject(p, Outcome("error", Undefined, <<>>, <<>>))

\* proces.stdin.on('error', ..): the message names the error only.
onStdinError(p) == reject(p, Outcome("stdin", Undefined, <<>>, <<>>))

DataEvents(p) == {i \in DOMAIN p.events : p.events[i].ev \in {"stdout", "stderr"}}

\* execute(command, commandArgs, buffer), up to the return of the executor.
execute(command, commandArgs, buffer) ==
    /\ proc.pc = "none" /\ proc.promise = "pending"
    /\ proc' =
         IF command = "" THEN reject(proc, Outcome("CommandRequired", Undefined, <<>>, <<>>))
         ELSE IF ~commandArgs.isArray
         THEN reject(proc, Outcome("ArgsNotArray", Undefined, <<>>, <<>>))
         ELSE [proc EXCEPT !.pc = "running",
                  !.stdin = IF buffer # Undefined THEN <<"write", "end">> ELSE <<"end">>]
    /\ UNCHANGED <<service, raster, encoder, lister>>

\* proces.stdout.on('data', data => stdout.push(data)); the stream can still
\* deliver after 'exit'.
stdoutData(chunk) ==
    /\ proc.pc \in {"running", "exited"}
    /\ Cardinality(DataEvents(proc)) < MaxChunks
    /\ proc' = [proc EXCEPT !.stdout = Append(@, chunk),
                   !.events = Append(@, Event("stdout", Undefined, chunk))]
    /\ UNCHANGED <<service, raster, encoder, lister>>

\* proces.stderr.on('data', data => stderr.push(data))
stderrData(chunk) ==
    /\ proc.pc \in {"running", "exited"}
    /\ Cardinality(DataEvents(proc)) < MaxChunks
    /\ proc' = [proc EXCEPT !.stderr = Append(@, chunk),
                   !.events = Append(@, Event("stderr", Undefined, chunk))]
    /\ UNCHANGED <<service, raster, encoder, lister>>

\* The child's 'exit' event, with its status (absent when a signal ended it).
processExit(code) ==
    /\ proc.pc = "running"
    /\ proc' = [onExit(proc, code) EXCEPT !.pc = "exited",
                   !.events = Append(@, Event("exit", code, <<>>))]
    /\ UNCHANGED <<service, raster, encoder, lister>>

\* The child's 'error' event: it could not be started, so it wrote nothing.
processError ==
    /\ proc.pc = "running"
    /\ DataEvents(proc) = {}
    /\ proc' = [onError(proc) EXCEPT !.pc = "failed",
                   !.events = Append(@, Event("error", Undefined, <<>>))]
    /\ UNCHANGED <<service, raster, encoder, lister>>

\* The 'error' event of the child's stdin (the child closed it or went away
\* before the buffer was written).
stdinError ==
    /\ proc.pc \in {"running", "exited"}
    /\ \A i \in DOMAIN proc.events : proc.events[i].ev # "stdinError"
    /\ proc' = [onStdinError(proc) EXCEPT
                   !.events = Append(@, Event("stdinError", Undefined, <<>>))]
    /\ UNCHANGED <<service, raster, encoder, lister>>

NextExecute ==
    \/ \E command \in Commands, commandArgs \in CommandArgs, buffer \in StdinBuffers :
           execute(command, commandArgs, buffer)
    \/ \E chunk \in StdoutChunks : stdoutData(chunk)
    \/ \E chunk \in StderrChunks : stderrData(chunk)
    \/ \E code \in ExitStatuses : processExit(code)
    \/ processError
    \/ stdinError

SpecExecute == Init /\ [][NextExecute]_vars

\* ---------------------------------------------------- convertImageToBitmap
MaxWidth == 17
MaxHeight == 3

\* The red channel values of the black-and-white image that matter to the
\* comparison with 50.
Levels == <<0, 49, 50, 255>>

\* Images of every size up to MaxWidth x MaxHeight, with pixel patterns that
\* put each level at each position of a byte.
RasterImages ==
    {[width |-> w, height |-> h,
      red |-> [p \in 0..(w * h - 1) |-> Levels[((p * k + s) % 4) + 1]]] :
        w \in 0..MaxWidth, h \in 0..MaxHeight, k \in 1..3, s \in 0..3}

\* convertImageToBitmap(image): throws without an image, else scans it.
convert(image) ==
    /\ raster.pc = "none"
    /\ raster' = IF image = Undefined
                 THEN [raster EXCEPT !.pc = "threw"]
                 ELSE [pc |-> "scanned", image |-> image,
                       bitmap |-> convertImageToBitmap(image[1])]
    /\ UNCHANGED <<service, proc, encoder, lister>>

NextRaster == \E image \in {Undefined} \cup {Some(i) : i \in RasterImages} : convert(image)

SpecRaster == Init /\ [][NextRaster]_vars

\* ----------------------------------------------------- listPrintersMacLinux
\* Texts are sequences of characters.
IsSpace(c) == c \in {" ", "\t", "\n"}

\* String.prototype.trim
RECURSIVE trimStart(_)
trimStart(s) == IF s # <<>> /\ IsSpace(Head(s)) THEN trimStart(Tail(s)) ELSE s

RECURSIVE trimEnd(_)
trimEnd(s) ==
    IF s # <<>> /\ IsSpace(s[Len(s)]) THEN trimEnd(SubSeq(s, 1, Len(s) - 1)) ELSE s

trim(s) == trimEnd(trimStart(s))

\* String.prototype.split('\n'): the pieces between the line feeds.
RECURSIVE splitFrom(_, _, _)
splitFrom(s, i, piece) ==
    IF i > Len(s) THEN <<piece>>
    ELSE IF s[i] = "\n" THEN <<piece>> \o splitFrom(s, i + 1, <<>>)
    ELSE splitFrom(s, i + 1, Append(piece, s[i]))

splitLines(s) == splitFrom(s, 1, <<>>)

\* row.replace(/_+/g, ' '): every run of underscores becomes one space.
RECURSIVE replaceUnderscores(_)
replaceUnderscores(s) ==
    IF s = <<>> THEN <<>>
    ELSE IF Head(s) # "_" THEN <<Head(s)>> \o replaceUnderscores(Tail(s))
    ELSE IF Len(s) > 1 /\ s[2] = "_" THEN replaceUnderscores(Tail(s))
    ELSE <<" ">> \o replaceUnderscores(Tail(s))

DescriptionTag == <<"d", "e", "s", "c", "r", "i", "p", "t", "i", "o", "n", ":">>

\* /^description:/gi.test(line.trim())
IsDescriptionLine(line) ==
    LET t == trim(line)
    IN  Len(t) >= Len(DescriptionTag)
        /\ toLowerCase(SubSeq(t, 1, Len(DescriptionTag))) = DescriptionTag

\* line.replace(/description:/gi, ''): every occurrence is removed.
RECURSIVE removeTag(_)
removeTag(s) ==
    IF s = <<>> THEN <<>>
    ELSE IF Len(s) >= Len(DescriptionTag)
            /\ toLowerCase(SubSeq(s, 1, Len(DescriptionTag))) = DescriptionTag
    THEN removeTag(SubSeq(s, Len(DescriptionTag) + 1, Len(s)))
    ELSE <<Head(s)>> \o removeTag(Tail(s))

NotBlank(row) == trim(row) # <<>>

\* The description in a probe's output: the first non-empty text of a line
\* that starts with "description:", sought in every such line after the tag
\* has been removed; undefined when there is none.
descriptionOf(value) ==
    LET lines == SelectSeq(splitLines(value), IsDescriptionLine)
        texts == [k \in DOMAIN lines |-> trim(removeTag(lines[k]))]
        found == {k \in DOMAIN texts : texts[k] # <<>>}
    IN  IF found = {} THEN Undefined
        ELSE Some(texts[CHOOSE k \in found : \A j \in found : k <= j])

parsePrintersEveryRow(stdout) ==
    LET rows == splitLines(stdout)
    IN  [k \in DOMAIN rows |->
            [deviceId |-> trim(rows[k]), name |-> trim(replaceUnderscores(rows[k]))]]

\* stdout.split('\n').filter(row => !!row.trim()).map(row => ({deviceId, name}))
parsePrinters(stdout) ==
    LET rows == SelectSeq(splitLines(stdout), NotBlank)
    IN  [k \in DOMAIN rows |->
            [deviceId |-> trim(rows[k]), name |-> trim(replaceUnderscores(rows[k]))]]

\* A settled probe: the entry Promise.allSettled reports for it.
Settlement(status, value) == [status |-> status, value |-> value]

allSettledInCompletionOrder(probes, order) ==
    [k \in DOMAIN probes |-> probes[order[k]][1]]

\* Promise.allSettled(promises): the entries in the order of `promises`.
allSettled(probes, order) == [k \in DOMAIN probes |-> probes[k][1]]

\* results.forEach((result, idx) => ..): the printers with the descriptions
\* found put in as names.
namePrinters(printers, results) ==
    [idx \in DOMAIN printers |->
        IF results[idx].status = "fulfilled" /\ results[idx].value # <<>>
           /\ descriptionOf(results[idx].value) # Undefined
        THEN [printers[idx] EXCEPT !.name = descriptionOf(results[idx].value)[1]]
        ELSE printers[idx]]

\* The rows lpstat -e can print, and the outputs of lpstat -l -p.
RowCatalog == {<<"D", "Y", "M", "O", "_", "4", "5", "0">>, <<" ", "H", "P", "_", "_", "1", " ">>, <<" ", " ">>}

ProbeOutputs == {<<>>, <<"i", "d", "l", "e", "\n", "\t", "D", "e", "s", "c", "r", "i", "p", "t", "i", "o", "n", ":", " ", "D", "y", "m", "o", "\n">>, <<"d", "e", "s", "c", "r", "i", "p", "t", "i", "o", "n", ":", "\n", "D", "E", "S", "C", "R", "I", "P", "T", "I", "O", "N", ":", " ", "B", " ", "d", "e", "s", "c", "r", "i", "p", "t", "i", "o", "n", ":", "x", "\n">>, <<"i", "d", "l", "e", "\n">>}

RowLists == UNION {[1..n -> RowCatalog] : n \in 0..MaxPrinters}

\* The text of the rows, each ended by a line feed.
RECURSIVE TextOfRows(_)
TextOfRows(rows) ==
    IF rows = <<>> THEN <<>> ELSE (Head(rows) \o <<"\n">>) \o TextOfRows(Tail(rows))

\* listPrinters() on macOS or Linux calls listPrintersMacLinux(), which
\* starts lpstat -e.
listPrintersMacLinux ==
    /\ lister.pc = "none"
    /\ IS_MACOS \/ IS_LINUX
    /\ lister' = [lister EXCEPT !.pc = "enumerating"]
    /\ UNCHANGED <<service, proc, raster, encoder>>

\* execute('lpstat', ['-e']) rejected: .catch(reject)
enumerationRejected ==
    /\ lister.pc = "enumerating"
    /\ lister' = [lister EXCEPT !.pc = "rejected"]
    /\ UNCHANGED <<service, proc, raster, encoder>>

\* execute('lpstat', ['-e']) resolved with the text of `rows`: the printers
\* are parsed and one probe per printer is started.
enumerationResolved(rows) ==
    /\ lister.pc = "enumerating"
    /\ LET stdout == TextOfRows(rows)
           printers == parsePrinters(stdout)
       IN lister' = [lister EXCEPT !.pc = "probing", !.rows = rows, !.stdout = stdout,
                        !.printers = printers,
                        !.probes = [k \in DOMAIN printers |-> Undefined]]
    /\ UNCHANGED <<service, proc, raster, encoder>>

\* The probe started for printer idx settles.
probeSettled(idx, status, value) ==
    /\ lister.pc = "probing"
    /\ idx \in DOMAIN lister.probes
    /\ lister.probes[idx] = Undefined
    /\ lister' = [lister EXCEPT !.probes[idx] = Some(Settlement(status, value)),
                     !.order = Append(@, idx)]
    /\ UNCHANGED <<service, proc, raster, encoder>>

\* The .then callback of Promise.allSettled: names are updated and the
\* listing resolves.
probesSettled ==
    /\ lister.pc = "probing"
    /\ \A idx \in DOMAIN lister.probes : lister.probes[idx] # Undefined
    /\ lister' = [lister EXCEPT !.pc = "resolved",
                     !.result = namePrinters(lister.printers,
                                             allSettled(lister.probes, lister.order))]
    /\ UNCHANGED <<service, proc, raster, encoder>>

NextLister ==
    \/ listPrintersMacLinux
    \/ enumerationRejected
    \/ \E rows \in RowLists : enumerationResolved(rows)
    \/ \E idx \in 1..MaxPrinters, value \in ProbeOutputs :
           probeSettled(idx, "fulfilled", value)
    \/ \E idx \in 1..MaxPrinters : probeSettled(idx, "rejected", <<>>)
    \/ probesSettled

SpecLister == Init /\ [][NextLister]_vars

\* ------------------------------------------------------------- constructor
\* new DymoServices(arg): validateConfig(arg); this.config = arg || {}
Construct(arg) ==
    /\ instance = "none"
    /\ ctorArg' = arg
    /\ IF validateConfig(arg) = "ok"
       THEN /\ instance' = "ok"
            /\ config' = IF arg = Undefined THEN EmptyConfig ELSE arg[1]
       ELSE /\ instance' = "threw"
            /\ UNCHANGED config
    /\ UNCHANGED <<proc, raster, encoder, lister, platform, chunks, builder, calls>>

\* ----------------------------------------------------------------- encoder
clearKeeps(ch) == ch

clear(ch) == <<>>

append(ch, buff) == Append(ch, buff)

initWidthInDots(ch, labelLineWidth, labelLength) ==
    LET lsb == labelLength % 256
        msb == (labelLength \div 256) % 256
        c0 == clear(ch)
        c1 == append(c0, CMD_START_ESC)
        c2 == append(c1, CMD_RESET)
        c3 == append(c2, CMD_NO_DOT_TAB)
        c4 == append(c3, BufferFrom(<<27, CharCodeAt("D"), labelLineWidth>>))
        c5 == append(c4, BufferFrom(<<27, CharCodeAt("L"), msb, lsb>>))
        c6 == append(c5, CMD_TEXT_SPEED_MODE)
    IN append(c6, CMD_DENSITY_NORMAL)

initDensityFirst(ch, labelLineWidth, labelLength) ==
    LET labelLineWidthBytes == CeilDiv8(labelLineWidth)
        lsb == labelLength % 256
        msb == (labelLength \div 256) % 256
        c0 == clear(ch)
        c1 == append(c0, CMD_START_ESC)
        c2 == append(c1, CMD_RESET)
        c3 == append(c2, CMD_NO_DOT_TAB)
        c4 == append(c3, BufferFrom(<<27, CharCodeAt("D"), labelLineWidthBytes>>))
        c5 == append(c4, BufferFrom(<<27, CharCodeAt("L"), msb, lsb>>))
        c6 == append(c5, CMD_DENSITY_NORMAL)
    IN append(c6, CMD_TEXT_SPEED_MODE)

\* init(labelLineWidth, labelLength) applied to this.chunks = ch
init(ch, labelLineWidth, labelLength) ==
    LET labelLineWidthBytes == CeilDiv8(labelLineWidth)
        lsb == labelLength % 256
        msb == (labelLength \div 256) % 256
        c0 == clear(ch)
        c1 == append(c0, CMD_START_ESC)
        c2 == append(c1, CMD_RESET)
        c3 == append(c2, CMD_NO_DOT_TAB)
        c4 == append(c3, BufferFrom(<<27, CharCodeAt("D"), labelLineWidthBytes>>))
        c5 == append(c4, BufferFrom(<<27, CharCodeAt("L"), msb, lsb>>))
        c6 == append(c5, CMD_TEXT_SPEED_MODE)
    IN append(c6, CMD_DENSITY_NORMAL)

RECURSIVE AppendRowsMarkerLast(_, _, _)
AppendRowsMarkerLast(ch, rows, i) ==
    IF i > Len(rows) THEN ch
    ELSE AppendRowsMarkerLast(append(ch, BufferFrom(rows[i] \o <<22>>)), rows, i + 1)

\* for (i = 0; i < imageBuffer.length; i++) append([0x16, ...imageBuffer[i]])
RECURSIVE AppendRows(_, _, _)
AppendRows(ch, rows, i) ==
    IF i > Len(rows) THEN ch
    ELSE AppendRows(append(ch, BufferFrom(<<22>> \o rows[i])), rows, i + 1)

RECURSIVE AppendCopiesAlwaysFull(_, _, _, _)
AppendCopiesAlwaysFull(ch, rows, count, printCount) ==
    IF count > printCount THEN ch
    ELSE LET withRows == AppendRows(ch, rows, 1)
             fed == append(withRows, CMD_FULL_FORM_FEED)
         IN AppendCopiesAlwaysFull(fed, rows, count + 1, printCount)

\* for (count = 1; count <= printCount; count++) { rows; form feed }
RECURSIVE AppendCopies(_, _, _, _)
AppendCopies(ch, rows, count, printCount) ==
    IF count > printCount THEN ch
    ELSE LET withRows == AppendRows(ch, rows, 1)
             fed == IF count = printCount
                    THEN append(withRows, CMD_FULL_FORM_FEED)
                    ELSE append(withRows, CMD_SHORT_FORM_FEED)
         IN AppendCopies(fed, rows, count + 1, printCount)

printBitmapThrowsNegativeOnly(imageBuffer, printCount) ==
    IF imageBuffer = Undefined \/ Len(imageBuffer[1]) = 0 THEN "EmptyImageBuffer"
    ELSE IF printCount < 0 THEN "InvalidPrintCount"
    ELSE ""

printBitmapThrowsCountFirst(imageBuffer, printCount) ==
    IF printCount <= 0 THEN "InvalidPrintCount"
    ELSE IF imageBuffer = Undefined \/ Len(imageBuffer[1]) = 0 THEN "EmptyImageBuffer"
    ELSE ""

\* The two guards at the head of printBitmap: "" when both pass.
printBitmapThrows(imageBuffer, printCount) ==
    IF imageBuffer = Undefined \/ Len(imageBuffer[1]) = 0 THEN "EmptyImageBuffer"
    ELSE IF printCount <= 0 THEN "InvalidPrintCount"
    ELSE ""

\* this.chunks after printBitmap has built the job (both guards passed).
printBitmapChunks(ch, rows, printCount) ==
    LET labelLineWidth == Len(rows[1]) * 8
        labelLength == Len(rows)
    IN AppendCopies(init(ch, labelLineWidth, labelLength), rows, 1, printCount)


\* init(labelLineWidth, labelLength) on its own, for the line widths and
\* label lengths (scanline counts) around the limits of the one-byte and
\* two-byte fields.
LabelLineWidths == {1, 8, 9, 16, 2040, 2048}
LabelLengths == {1, 8, 255, 256, 257, 2040, 65535, 65536, 65537}

initLabel(labelLineWidth, labelLength) ==
    /\ encoder.pc = "none"
    /\ encoder' = [pc |-> "done", labelLineWidth |-> labelLineWidth,
                   labelLength |-> labelLength,
                   chunks |-> init(<<>>, labelLineWidth, labelLength)]
    /\ UNCHANGED <<service, proc, raster, lister>>

NextInit ==
    \E labelLineWidth \in LabelLineWidths, labelLength \in LabelLengths :
        initLabel(labelLineWidth, labelLength)

SpecInit == Init /\ [][NextInit]_vars

\* ---------------------------------------------------------------- dispatch
IoEvent(op, args, n, data) == [op |-> op, args |-> args, n |-> n, data |-> data]

\* DymoServices.tmpFile: a fresh name from 16 random bytes, one per call.
tmpFile(c) == "tmp." \o ToString(c)

listPrintersAnyPlatform(call) ==
    IF IS_WINDOWS
    THEN [call EXCEPT !.pc = "listing",
             !.io = Append(@, IoEvent("spawn", <<"Powershell.exe", "-Command",
                 "Get-CimInstance Win32_Printer -Property DeviceID,Name">>, 0, <<>>))]
    ELSE [call EXCEPT !.pc = "listing",
             !.io = Append(@, IoEvent("spawn", <<"lpstat", "-e">>, 0, <<>>))]

\* listPrinters(), up to the point where it returns its promise.
listPrinters(call) ==
    IF ~IS_WINDOWS /\ ~IS_MACOS /\ ~IS_LINUX
    THEN [call EXCEPT !.pc = "listUnsupported"]
    ELSE IF IS_WINDOWS
    THEN [call EXCEPT !.pc = "listing",
             !.io = Append(@, IoEvent("spawn", <<"Powershell.exe", "-Command",
                 "Get-CimInstance Win32_Printer -Property DeviceID,Name">>, 0, <<>>))]
    ELSE [call EXCEPT !.pc = "listing",
             !.io = Append(@, IoEvent("spawn", <<"lpstat", "-e">>, 0, <<>>))]

sendDataToNetworkPrinterNoDefaults(call, buffer, host, port) ==
    LET h == IF host = Undefined THEN "" ELSE host[1]
        p == IF port = Undefined THEN 0 ELSE port[1]
    IN [call EXCEPT !.pc = "connecting", !.buffer = buffer,
           !.io = Append(@, IoEvent("net.connect", <<h>>, p, <<>>))]

\* net.connect({host, port, timeout: 30000}, ..) with the default parameters
\* host = 'localhost' and port = 9100.
sendDataToNetworkPrinter(call, buffer, host, port) ==
    LET h == IF host = Undefined THEN "localhost" ELSE host[1]
        p == IF port = Undefined THEN 9100 ELSE port[1]
    IN [call EXCEPT !.pc = "connecting", !.buffer = buffer,
           !.io = Append(@, IoEvent("net.connect", <<h>>, p, <<>>))]

sendDataToCupsPrinter(call, buffer, deviceId) ==
    IF ~Truthy(deviceId)
    THEN [call EXCEPT !.pc = "rejected", !.error = "NoDeviceId"]
    ELSE [call EXCEPT !.pc = "lp",
             !.io = Append(@, IoEvent("spawn", <<"lp", "-d", deviceId[1]>>, 0, buffer))]

sendDataToWindowsPrinter(c, call, buffer, deviceId) ==
    LET tmp == tmpFile(c)
        id == IF deviceId = Undefined THEN "undefined" ELSE deviceId[1]
    IN [call EXCEPT !.pc = "rawprint",
           !.io = @ \o <<IoEvent("fs.writeFileSync", <<tmp>>, 0, buffer),
                         IoEvent("spawn", <<"RawPrint.exe", id, tmp>>, 0, buffer)>>]

sendDataToDevicePrinter(call, buffer, device) ==
    IF ~Truthy(device)
    THEN [call EXCEPT !.pc = "rejected", !.error = "NoDevice"]
    ELSE [call EXCEPT !.pc = "writing",
             !.io = Append(@, IoEvent("fs.writeFile", <<device[1]>>, 0, buffer))]

sendDataToPrinterLpOnWindows(c, call, ch, cfg) ==
    LET buffer == BufferConcat(ch)
        printerInterface == cfg.interface
    IN IF ~Truthy(printerInterface) THEN listPrinters(call)
       ELSE IF printerInterface[1] = "NETWORK"
       THEN sendDataToNetworkPrinter(call, buffer, cfg.host, cfg.port)
       ELSE IF printerInterface[1] \in {"CUPS", "WINDOWS"}
       THEN sendDataToCupsPrinter(call, buffer, cfg.deviceId)
       ELSE IF printerInterface[1] = "DEVICE"
       THEN sendDataToDevicePrinter(call, buffer, cfg.device)
       ELSE [call EXCEPT !.pc = "rejected", !.error = "UnknownInterface"]

\* sendDataToPrinter(), up to its first suspension: the call record after it,
\* given this.chunks = ch and this.config = cfg.
sendDataToPrinter(c, call, ch, cfg) ==
    LET buffer == BufferConcat(ch)
        printerInterface == cfg.interface
    IN IF ~Truthy(printerInterface) THEN listPrinters(call)
       ELSE IF printerInterface[1] = "NETWORK"
       THEN sendDataToNetworkPrinter(call, buffer, cfg.host, cfg.port)
       ELSE IF printerInterface[1] = "CUPS"
       THEN sendDataToCupsPrinter(call, buffer, cfg.deviceId)
       ELSE IF printerInterface[1] = "WINDOWS"
       THEN sendDataToWindowsPrinter(c, call, buffer, cfg.deviceId)
       ELSE IF printerInterface[1] = "DEVICE"
       THEN sendDataToDevicePrinter(call, buffer, cfg.device)
       ELSE [call EXCEPT !.pc = "rejected", !.error = "UnknownInterface"]

\* printBitmap(imageBuffer, printCount) run by call c; a throw leaves the call
\* at onThrow ("rejected" inside print's promise chain, "threw" for a direct
\* caller) and touches nothing else.
printBitmap(c, call, onThrow) ==
    LET err == printBitmapThrows(call.imageBuffer, call.printCount)
    IN IF err # ""
       THEN /\ calls' = [calls EXCEPT ![c] = [call EXCEPT !.pc = onThrow, !.error = err]]
            /\ UNCHANGED <<chunks, builder>>
       ELSE LET ch == printBitmapChunks(chunks, call.imageBuffer[1], call.printCount)
            IN /\ chunks' = ch
               /\ builder' = c
               /\ calls' = [calls EXCEPT ![c] = sendDataToPrinter(c, call, ch, config)]

\* Marks call c and every call in flight as overlapping when c starts while
\* another call is in flight.
Started(c, rec) ==
    LET busy == \E d \in Calls \ {c} : InFlight(d)
    IN [d \in Calls |->
          IF d = c THEN [rec EXCEPT !.overlapped = busy]
          ELSE IF InFlight(d) THEN [calls[d] EXCEPT !.overlapped = TRUE]
          ELSE calls[d]]

CanStart(c) ==
    /\ instance = "ok"
    /\ calls[c].pc = "idle"
    /\ c > 1 => calls[c - 1].pc # "idle"

\* print(image, printCount), up to the point where the promise of
\* convertImageToBitmap is fulfilled with the bitmap.
print(c, id, printCount) ==
    /\ CanStart(c)
    /\ calls' = Started(c, [IdleCall EXCEPT !.pc = "converted", !.via = "print",
                               !.image = id, !.imageBuffer = Some(BitmapOf[id]),
                               !.printCount = printCount])
    /\ UNCHANGED <<proc, raster, encoder, lister, platform, instance, ctorArg, config, chunks, builder>>

\* The .then callback of print(): this.printBitmap(bitmapImageBuffer, printCount)
printThen(c) ==
    /\ calls[c].pc = "converted"
    /\ printBitmap(c, calls[c], "rejected")
    /\ UNCHANGED <<proc, raster, encoder, lister, platform, instance, ctorArg, config>>


\* A direct call of printBitmap(imageBuffer, printCount): it runs to its first
\* suspension at once and an error is thrown to the caller.
DirectBuffers == {Undefined, Some(<<>>), Some(BitmapOf["black8x8"])}

printBitmapDirect(c, imageBuffer, printCount) ==
    /\ CanStart(c)
    /\ LET started == Started(c, [IdleCall EXCEPT !.via = "printBitmap",
                                    !.imageBuffer = imageBuffer,
                                    !.printCount = printCount])
           err == printBitmapThrows(imageBuffer, printCount)
       IN IF err # ""
          THEN /\ calls' = [started EXCEPT ![c].pc = "threw", ![c].error = err]
               /\ UNCHANGED <<chunks, builder>>
          ELSE LET ch == printBitmapChunks(chunks, imageBuffer[1], printCount)
               IN /\ chunks' = ch
                  /\ builder' = c
                  /\ calls' = [started EXCEPT
                                 ![c] = sendDataToPrinter(c, started[c], ch, config)]
    /\ UNCHANGED <<proc, raster, encoder, lister, platform, instance, ctorArg, config>>

\* --------------------------------------------------------------- discovery
\* listPrinters() was rejected at once: unsupported operating system.
listPrintersUnsupported(c) ==
    /\ calls[c].pc = "listUnsupported"
    /\ calls' = [calls EXCEPT ![c].pc = "rejected", ![c].error = "UnsupportedOS"]
    /\ UNCHANGED <<proc, raster, encoder, lister, platform, instance, ctorArg, config, chunks, builder>>

\* The enumeration process failed: listPrinters() rejects.
listPrintersRejected(c) ==
    /\ calls[c].pc = "listing"
    /\ calls' = [calls EXCEPT ![c].pc = "rejected", ![c].error = "ListFailed"]
    /\ UNCHANGED <<proc, raster, encoder, lister, platform, instance, ctorArg, config, chunks, builder>>

discoveredAlwaysCups(cfg, printer) ==
    [cfg EXCEPT !.interface = Some("CUPS"), !.deviceId = Some(printer.deviceId)]

discoveredForgotten(cfg, printer) ==
    [cfg EXCEPT !.interface = Undefined, !.deviceId = Undefined]

\* this.config.interface = IS_WINDOWS ? 'WINDOWS' : 'CUPS';
\* this.config.deviceId = printer.deviceId;
discovered(cfg, printer) ==
    [cfg EXCEPT !.interface = IF IS_WINDOWS THEN Some("WINDOWS") ELSE Some("CUPS"),
                !.deviceId = Some(printer.deviceId)]

\* listPrinters() resolved with `printers`: the .then callback of
\* sendDataToPrinter picks the first match, stores it in this.config and
\* calls sendDataToPrinter() again.
listPrintersResolved(c, printers) ==
    /\ calls[c].pc = "listing"
    /\ LET idx == FindIndex(printers)
           seen == [calls[c] EXCEPT !.listed = TRUE, !.printers = printers, !.found = idx]
       IN IF idx = 0
          THEN /\ calls' = [calls EXCEPT ![c] =
                              [seen EXCEPT !.pc = "rejected", !.error = "NoPrinterFound"]]
               /\ UNCHANGED config
          ELSE LET cfg == discovered(config, printers[idx])
               IN /\ config' = cfg
                  /\ calls' = [calls EXCEPT ![c] = sendDataToPrinter(c, seen, chunks, cfg)]
    /\ UNCHANGED <<proc, raster, encoder, lister, platform, instance, ctorArg, chunks, builder>>

\* ---------------------------------------------------------------- delivery
\* The connect callback: networkPrinter.write(buffer, 'binary', ..)
networkConnected(c) ==
    /\ calls[c].pc = "connecting"
    /\ calls' = [calls EXCEPT ![c].pc = "netWriting", ![c].report = "connect",
                    ![c].io = Append(@, IoEvent("socket.write", <<>>, 0, calls[c].buffer))]
    /\ UNCHANGED <<proc, raster, encoder, lister, platform, instance, ctorArg, config, chunks, builder>>

\* The write callback, () => { networkPrinter.end(); resolve(); }. The stream
\* calls it when the buffer has been flushed, and also, with the error as its
\* argument and before 'error' is emitted, when the write failed (err); the
\* callback takes no argument and does the same in both cases.
networkWritten(c, err) ==
    /\ calls[c].pc = "netWriting"
    /\ calls' = [calls EXCEPT ![c].pc = "resolved", ![c].buffer = <<>>,
                    ![c].report = IF err THEN "writeFailed" ELSE "written",
                    ![c].io = Append(@, IoEvent("socket.end", <<>>, 0, <<>>))]
    /\ UNCHANGED <<proc, raster, encoder, lister, platform, instance, ctorArg, config, chunks, builder>>

networkFailedEndsOnly(c, event) ==
    /\ calls[c].pc \in {"connecting", "netWriting"}
    /\ calls' = [calls EXCEPT ![c].pc = "ended", ![c].report = event,
                    ![c].io = Append(@, IoEvent("socket.end", <<>>, 0, <<>>))]
    /\ UNCHANGED <<proc, raster, encoder, lister, platform, instance, ctorArg, config, chunks, builder>>

\* The 'error' or 'timeout' event of the socket: networkPrinter.end(); reject(..)
networkFailed(c, event) ==
    /\ calls[c].pc \in {"connecting", "netWriting"}
    /\ calls' = [calls EXCEPT ![c].pc = "rejected", ![c].error = event,
                    ![c].buffer = <<>>, ![c].report = event,
                    ![c].io = Append(@, IoEvent("socket.end", <<>>, 0, <<>>))]
    /\ UNCHANGED <<proc, raster, encoder, lister, platform, instance, ctorArg, config, chunks, builder>>

\* The 'exit' event of lp.
lpExit(c, code) ==
    /\ calls[c].pc = "lp"
    /\ calls' = [calls EXCEPT ![c].pc = IF code = 0 THEN "resolved" ELSE "rejected",
                    ![c].error = IF code = 0 THEN "" ELSE "NonZeroExit",
                    ![c].report = IF code = 0 THEN "exit0" ELSE "exitNonZero"]
    /\ UNCHANGED <<proc, raster, encoder, lister, platform, instance, ctorArg, config, chunks, builder>>

\* The 'exit' event of RawPrint.exe; the temporary file is removed in .then only.
rawPrintExit(c, code) ==
    /\ calls[c].pc = "rawprint"
    /\ calls' = IF code = 0
                THEN [calls EXCEPT ![c].pc = "resolved", ![c].report = "exit0",
                        ![c].io = Append(@, IoEvent("fs.unlinkSync", <<tmpFile(c)>>, 0, <<>>))]
                ELSE [calls EXCEPT ![c].pc = "rejected", ![c].error = "NonZeroExit",
                        ![c].report = "exitNonZero"]
    /\ UNCHANGED <<proc, raster, encoder, lister, platform, instance, ctorArg, config, chunks, builder>>

\* The 'error' event of the spawned lp or RawPrint.exe (it could not be
\* started), or the 'error' event of its stdin: execute() rejects.
executeFailed(c, event) ==
    /\ calls[c].pc \in {"lp", "rawprint"}
    /\ calls' = [calls EXCEPT ![c].pc = "rejected", ![c].error = event,
                    ![c].report = event]
    /\ UNCHANGED <<proc, raster, encoder, lister, platform, instance, ctorArg, config, chunks, builder>>

\* The callback of fs.writeFile(device, buffer, ..)
writeFileDone(c, err) ==
    /\ calls[c].pc = "writing"
    /\ calls' = [calls EXCEPT ![c].pc = IF err THEN "rejected" ELSE "resolved",
                    ![c].error = IF err THEN "WriteError" ELSE "",
                    ![c].report = IF err THEN "writeError" ELSE "writeOk"]
    /\ UNCHANGED <<proc, raster, encoder, lister, platform, instance, ctorArg, config, chunks, builder>>

\* ============================================================ specification
ExitCodes == {0, 1}

\* Every operation of the model: the constructor called with an argument of
\* `args`; for the calls `cs`, print() with an image of `ids` and a copy
\* count of `counts`, and printBitmap called directly with a bitmap of
\* `directs`; enumerations answering with a list of `lists`.
NextOver(args, cs, ids, counts, directs, lists, fails) ==
    \/ \E arg \in args : Construct(arg)
    \/ \E c \in cs, id \in ids, n \in counts : print(c, id, n)
    \/ \E c \in cs, ib \in directs, n \in counts : printBitmapDirect(c, ib, n)
    \/ \E c \in cs : printThen(c)
    \/ \E c \in cs : listPrintersUnsupported(c)
    \/ \E c \in cs : listPrintersRejected(c)
    \/ \E c \in cs, printers \in lists : listPrintersResolved(c, printers)
    \/ \E c \in cs : networkConnected(c)
    \/ \E c \in cs, err \in BOOLEAN : networkWritten(c, err)
    \/ \E c \in cs, event \in {"error", "timeout"} : networkFailed(c, event)
    \/ \E c \in cs, code \in ExitCodes : lpExit(c, code)
    \/ \E c \in cs, code \in ExitCodes : rawPrintExit(c, code)
    \/ \E c \in cs, event \in fails : executeFailed(c, event)
    \/ \E c \in cs, err \in BOOLEAN : writeFileDone(c, err)

\* One call at a time on a fresh instance, over the whole catalogue of
\* constructor arguments, images, copy counts and enumeration results.
NextEncoder ==
    NextOver(CtorArgs, {1}, ImageIds, (-1)..MaxCopies, DirectBuffers, PrinterLists,
             {"spawnError", "stdinError"})

SpecEncoder == Init /\ [][NextEncoder]_vars

\* Several calls on one instance, in any interleaving, over a small catalogue.
SharedArgs ==
    { Some(EmptyConfig),
      Some(Cfg(Some("NETWORK"), Some("10.0.0.5"), Some(9100), Undefined, Undefined)),
      Some(Cfg(Some("DEVICE"), Undefined, Undefined, Undefined, Some("/dev/usb/lp0"))) }

SharedLists ==
    {l \in PrinterLists :
       \/ l = <<>>
       \/ Len(l) = 1 /\ l[1].deviceId = "DYMO_LabelWriter_450"}

Next ==
    NextOver(SharedArgs, Calls, {"black8x8"}, {1, 2}, {Undefined}, SharedLists,
             {"spawnError"})

Spec == Init /\ [][Next]_vars


\* =================================================================== claims
\* A NETWORK target whose host never accepts the connection: the connect
\* callback never runs, so the only events of the socket are 'error' and
\* 'timeout'.
NetworkArgs ==
    {arg \in CtorArgs : arg # Undefined /\ arg[1].interface = Some("NETWORK")}

NextUnreachable ==
    \/ \E arg \in NetworkArgs : Construct(arg)
    \/ \E id \in ImageIds, n \in (-1)..MaxCopies : print(1, id, n)
    \/ printThen(1)
    \/ \E event \in {"error", "timeout"} : networkFailed(1, event)

\* The .then callback of print is a microtask and runs once the call stack
\* is empty; the socket is created with timeout: 30000, so without any
\* activity its 'timeout' event fires unless 'error' came first.
SpecUnreachable ==
    /\ Init
    /\ [][NextUnreachable]_vars
    /\ WF_vars(printThen(1))
    /\ WF_vars(\E event \in {"error", "timeout"} : networkFailed(1, event))

Range(seq) == {seq[i] : i \in DOMAIN seq}

\* An input/output operation that enumerates printers.
IsEnumeration(e) == e.op = "spawn" /\ e.args[1] \in {"lpstat", "Powershell.exe"}

\* The buffers call c handed to a transport channel (socket, stdin of lp or
\* RawPrint.exe, temporary file, device file).
Payloads(c) == {e.data : e \in {x \in Range(calls[c].io) : x.data # <<>>}}

\* The number of fragments of ch equal to frag.
CountOf(ch, frag) == Cardinality({i \in DOMAIN ch : ch[i] = frag})

\* The rows of the bitmap call c handed to printBitmap.
RowsOf(c) == calls[c].imageBuffer[1]

HasRows(c) == calls[c].imageBuffer # Undefined /\ Len(RowsOf(c)) > 0

\* C1: whenever printBitmap has built the command buffer for a non-empty
\* bitmap and printCount >= 1, its fragments hold exactly one full form-feed
\* (ESC 'E') and exactly printCount - 1 short form-feeds (ESC 'G'), the full
\* one being the last fragment.
C1_FormFeedCounts ==
    builder # 0 =>
        /\ calls[builder].printCount >= 1
        /\ CountOf(chunks, <<27, 69>>) = 1
        /\ CountOf(chunks, <<27, 71>>) = calls[builder].printCount - 1
        /\ chunks[Len(chunks)] = <<27, 69>>

C1_Witness ==
    /\ builder = 1
    /\ calls[1].printCount >= 2
    /\ CountOf(chunks, <<27, 71>>) >= 1
    /\ Payloads(1) = {BufferConcat(chunks)}

\* C2: a print() call with printCount <= 0 never gets past its promise chain:
\* it is rejected and performs no input/output operation at all (no socket,
\* no process, no file, no enumeration).
C2_NonPositiveCountSendsNothing ==
    \A c \in Calls :
        (calls[c].via = "print" /\ calls[c].printCount <= 0) =>
            /\ calls[c].pc \in {"converted", "rejected"}
            /\ calls[c].io = <<>>
            /\ builder # c

C2_Witness ==
    \E c \in Calls :
        /\ calls[c].via = "print"
        /\ calls[c].printCount <= 0
        /\ HasRows(c)
        /\ calls[c].pc = "rejected"
        /\ calls[c].error = "InvalidPrintCount"

\* C3: once printBitmap has run for an absent bitmap or a bitmap without rows,
\* the call has failed with the empty-bitmap error, this.chunks was not
\* rebuilt by it and it performed no input/output operation.
C3_EmptyBitmapFailsFirst ==
    \A c \in Calls :
        (calls[c].via # "none" /\ calls[c].pc # "converted" /\ ~HasRows(c)) =>
            /\ calls[c].pc \in {"rejected", "threw"}
            /\ calls[c].error = "EmptyImageBuffer"
            /\ calls[c].io = <<>>
            /\ builder # c

C3_Witness ==
    \E c \in Calls :
        /\ calls[c].via = "print"
        /\ calls[c].imageBuffer = Some(<<>>)
        /\ calls[c].pc = "rejected"
        /\ calls[c].error = "EmptyImageBuffer"

\* C4: in every buffer handed to a transport for a bitmap whose rows are at
\* most 255 bytes long, byte 321 (the value of ESC 'D' n at 319..321) is the
\* byte length of the rows, which is ceil(lineWidthBits / 8); for the 8x8
\* image it is 1 and the label length field (bytes 324, 325) is 0, 8.
C4_BytesPerLine ==
    \A c \in Calls : \A data \in Payloads(c) :
        Len(RowsOf(c)[1]) <= 255 =>
            /\ data[319] = 27 /\ data[320] = 68
            /\ \A r \in DOMAIN RowsOf(c) : data[321] = Len(RowsOf(c)[r])
            /\ data[321] = CeilDiv8(Len(RowsOf(c)[1]) * 8)
            /\ calls[c].via = "print" =>
                   data[321] = CeilDiv8(Image(calls[c].image).height)
            /\ calls[c].image = "black8x8" =>
                   data[321] = 1 /\ data[324] = 0 /\ data[325] = 8

C4_Witness ==
    \E c \in Calls : \E data \in Payloads(c) :
        /\ calls[c].image = "black8x8"
        /\ calls[c].pc = "resolved"
        /\ data[321] = 1 /\ data[324] = 0 /\ data[325] = 8

\* C5: a call whose bitmap rows are longer than 255 bytes never hands a byte
\* to a transport channel and never resolves.
C5_WideBitmapRejected ==
    \A c \in Calls :
        (HasRows(c) /\ Len(RowsOf(c)[1]) > 255) =>
            /\ Payloads(c) = {}
            /\ calls[c].pc # "resolved"

\* C6: two calls that ran one after the other (neither overlapped another
\* call) with the same image and the same copy count handed the same bytes
\* to the transport.
C6_SequentialCallsSameBytes ==
    \A c1, c2 \in Calls :
        ( /\ c1 # c2
          /\ ~calls[c1].overlapped /\ ~calls[c2].overlapped
          /\ calls[c1].via = "print" /\ calls[c2].via = "print"
          /\ calls[c1].image = calls[c2].image
          /\ calls[c1].printCount = calls[c2].printCount
          /\ Payloads(c1) # {} /\ Payloads(c2) # {} )
        => Payloads(c1) = Payloads(c2)

C6_Witness ==
    /\ calls[1].pc = "resolved" /\ calls[2].pc = "resolved"
    /\ ~calls[1].overlapped /\ ~calls[2].overlapped
    /\ calls[1].image = calls[2].image
    /\ calls[1].printCount = 2 /\ calls[2].printCount = 2
    /\ Payloads(1) # {} /\ Payloads(1) = Payloads(2)

\* C7: the constructor throws for every configuration whose interface is set
\* (a non-empty string) and is not NETWORK, CUPS, WINDOWS or DEVICE; an
\* instance never holds such an interface, and no call fails in the
\* 'Unknown printer interface' branch of sendDataToPrinter.
KnownInterface(opt) ==
    opt = Undefined \/ opt[1] \in {"", "NETWORK", "CUPS", "WINDOWS", "DEVICE"}

C7_UnknownInterfaceThrows ==
    /\ (instance # "none" /\ ctorArg # Undefined /\ ~KnownInterface(ctorArg[1].interface))
           => instance = "threw"
    /\ instance = "ok" => KnownInterface(config.interface)
    /\ \A c \in Calls : calls[c].error # "UnknownInterface"

C7_Witness ==
    /\ instance = "threw"
    /\ ctorArg # Undefined
    /\ ctorArg[1].interface = Some("BLUETOOTH")

\* C8: constructing with no argument yields an instance with an empty
\* configuration.
C8_NoArgumentConstructs ==
    (instance # "none" /\ ctorArg = Undefined) =>
        (instance = "ok" /\ config = EmptyConfig)

\* C9: once the enumeration of an undetermined target has answered, the entry
\* chosen is the first one whose name contains d-y-m-o in any mix of upper and
\* lower case, and the delivery started in that call (lp -d <deviceId>, or
\* RawPrint.exe <deviceId> <file>) names the deviceId of that entry and of no
\* other.
ContainsDymoAnyCase(name) ==
    \E k \in 1..(Len(name) - 3) :
        /\ name[k] \in {"d", "D"}
        /\ name[k + 1] \in {"y", "Y"}
        /\ name[k + 2] \in {"m", "M"}
        /\ name[k + 3] \in {"o", "O"}

Matches(c) == {i \in DOMAIN calls[c].printers : ContainsDymoAnyCase(calls[c].printers[i].name)}

DeliveredTo(c) ==
    {e.args[2] : e \in {x \in Range(calls[c].io) : x.op = "spawn" /\ x.args[1] = "RawPrint.exe"}}
    \cup
    {e.args[3] : e \in {x \in Range(calls[c].io) : x.op = "spawn" /\ x.args[1] = "lp"}}

C10_NoMatchFails ==
    \A c \in Calls :
        (calls[c].listed /\ Matches(c) = {}) =>
            /\ calls[c].pc = "rejected"
            /\ calls[c].error = "NoPrinterFound"
            /\ \A e \in Range(calls[c].io) : IsEnumeration(e)

C10_Witness ==
    \E c \in Calls :
        /\ calls[c].listed
        /\ Len(calls[c].printers) = 2
        /\ Matches(c) = {}
        /\ calls[c].pc = "rejected"
        /\ calls[c].error = "NoPrinterFound"
        /\ Len(calls[c].io) = 1

\* The buffer printBitmap builds from call c's own bitmap and copy count.
OwnBuffer(c) ==
    BufferConcat(printBitmapChunks(<<>>, RowsOf(c), calls[c].printCount))

\* C11: every buffer a print call hands to a transport is the buffer built
\* from that call's own image and copy count, also when another call on the
\* same instance is in flight at the same time.
C11_OwnBufferDelivered ==
    \A c \in Calls : \A data \in Payloads(c) : data = OwnBuffer(c)

\* The temporary files call c has written and not removed since.
TmpFilesLeft(c) ==
    LET io == calls[c].io
    IN  {io[i].args[1] : i \in
            {j \in DOMAIN io :
                /\ io[j].op = "fs.writeFileSync"
                /\ \A k \in DOMAIN io :
                       (k > j /\ io[k].op = "fs.unlinkSync") =>
                           io[k].args[1] # io[j].args[1]}}

\* C12: once a delivery through the WINDOWS interface has settled, whether
\* RawPrint.exe exited with status 0, exited with another status or could
\* not be started, the temporary file written for it exists no more.
C12_TempFileRemoved ==
    \A c \in Calls : calls[c].pc \in Settled => TmpFilesLeft(c) = {}

\* The instance was constructed without a target interface.
Undetermined ==
    instance = "ok" /\ ctorArg # Undefined /\ ~Truthy(ctorArg[1].interface)

C14_UnreachableHostFails ==
    \A c \in Calls :
        (calls[c].pc = "connecting") ~>
            (calls[c].pc = "rejected" /\ calls[c].error \in {"error", "timeout"})

C14_Witness ==
    \E c \in Calls :
        /\ calls[c].pc = "rejected"
        /\ calls[c].error = "timeout"
        /\ Len(calls[c].io) = 2
        /\ calls[c].io[1].op = "net.connect"
        /\ calls[c].io[2].op = "socket.end"

\* What a delivery channel reports when it has taken the whole buffer, and
\* what it reports when it failed.
CompletionReports == {"written", "exit0", "writeOk"}

ErrorReports ==
    {"error", "timeout", "writeFailed", "exitNonZero", "spawnError", "stdinError",
     "writeError"}

\* The report that completes a delivery on the channel call c uses.
CompletionOf(c) ==
    LET ops == {e.op : e \in Range(calls[c].io)}
    IN  IF "net.connect" \in ops THEN "written"
        ELSE IF "spawn" \in ops THEN "exit0"
        ELSE IF "fs.writeFile" \in ops THEN "writeOk"
        ELSE ""

\* C15: on every interface a print call is resolved only when its channel
\* has reported that it took the whole buffer (the socket's write callback
\* for a flushed buffer, exit status 0 of lp or RawPrint.exe, fs.writeFile
\* without error), and a call whose channel reported an error is rejected,
\* never resolved.
C15_ChannelErrorRejects ==
    \A c \in Calls :
        /\ calls[c].pc = "resolved" =>
              /\ calls[c].report \in CompletionReports
              /\ calls[c].report = CompletionOf(c)
              /\ Payloads(c) # {}
        /\ calls[c].report \in ErrorReports => calls[c].pc = "rejected"

\* The events of the child that settle execute()'s promise.
SettlingEvents == {i \in DOMAIN proc.events : proc.events[i].ev \in {"exit", "error", "stdinError"}}

FirstSettling == CHOOSE i \in SettlingEvents : \A j \in SettlingEvents : i <= j

IsStdout(e) == e.ev = "stdout"
IsStderr(e) == e.ev = "stderr"

RECURSIVE TextOf(_)
TextOf(evs) == IF evs = <<>> THEN <<>> ELSE Head(evs).data \o TextOf(Tail(evs))

\* The text the child had written to stdout / stderr before its k-th event.
StdoutBefore(k) == TextOf(SelectSeq(SubSeq(proc.events, 1, k - 1), IsStdout))
StderrBefore(k) == TextOf(SelectSeq(SubSeq(proc.events, 1, k - 1), IsStderr))

BadEnd ==
    \E i \in DOMAIN proc.events :
        \/ proc.events[i].ev = "exit" /\ proc.events[i].code # Some(0)
        \/ proc.events[i].ev = "error"

GoodEnd ==
    \E i \in DOMAIN proc.events :
        proc.events[i].ev = "exit" /\ proc.events[i].code = Some(0)

\* The statement of C16 as written: once the process has ended, the
\* execution has failed exactly when the process ended with a status other
\* than 0 or could not be started, the failure carrying the captured stderr
\* and stdout text, and it has succeeded with the captured stdout when the
\* process exited with status 0.
C16_FailsExactlyOnBadEnd ==
    proc.pc \in {"exited", "failed"} =>
        /\ proc.promise = "rejected" <=> BadEnd
        /\ proc.promise = "resolved" <=> (GoodEnd /\ ~BadEnd)
        /\ proc.promise = "rejected" =>
               /\ proc.value.stderr = StderrBefore(FirstSettling)
               /\ proc.value.stdout = StdoutBefore(FirstSettling)

\* C16: the first of the child's 'exit', 'error' and stdin 'error' events
\* settles the execution. An exit with status 0 resolves it with the stdout
\* text captured until then, whether or not stderr was written; an exit
\* with another or no status rejects it with that status and the stderr and
\* stdout text captured until then; an 'error' of the process or of its
\* stdin rejects it with the error's description only. Before any of them it
\* is pending, and without a command or an argument array it is rejected
\* without starting a process.
C16_FirstEventSettles ==
    IF proc.pc = "none"
    THEN /\ proc.events = <<>> /\ proc.stdin = <<>>
         /\ proc.promise \in {"pending", "rejected"}
         /\ proc.promise = "rejected" =>
                proc.value.kind \in {"CommandRequired", "ArgsNotArray"}
    ELSE IF SettlingEvents = {} THEN proc.promise = "pending"
    ELSE LET k == FirstSettling
             e == proc.events[k]
         IN  IF e.ev = "exit" /\ e.code = Some(0)
             THEN /\ proc.promise = "resolved"
                  /\ proc.value = Outcome("ok", Undefined, <<>>, StdoutBefore(k))
             ELSE IF e.ev = "exit"
             THEN /\ proc.promise = "rejected"
                  /\ proc.value = Outcome("exit", e.code, StderrBefore(k), StdoutBefore(k))
             ELSE IF e.ev = "error"
             THEN /\ proc.promise = "rejected"
                  /\ proc.value = Outcome("error", Undefined, <<>>, <<>>)
             ELSE /\ proc.promise = "rejected"
                  /\ proc.value = Outcome("stdin", Undefined, <<>>, <<>>)

C16_Witness ==
    /\ Len(proc.events) = 3
    /\ proc.events[1].ev = "stderr"
    /\ proc.events[2].ev = "stdinError"
    /\ proc.events[3].ev = "exit" /\ proc.events[3].code = Some(0)
    /\ proc.promise = "rejected"
    /\ proc.value.kind = "stdin"

\* The statement of C17 as written: for every image the bitmap has as many
\* rows as the image is high and every row has ceil(width / 8) bytes.
C17_RowsEqualHeight ==
    raster.pc = "scanned" =>
        LET image == raster.image[1]
        IN  /\ Len(raster.bitmap) = image.height
            /\ \A r \in DOMAIN raster.bitmap :
                   Len(raster.bitmap[r]) = (image.width + 7) \div 8

\* C17: for every image at least one pixel wide the bitmap has as many rows
\* as the image is high and every row has ceil(width / 8) bytes; for an
\* image of width 0 the bitmap has no rows, whatever the height.
C17_RowsOfImagesWithPixels ==
    raster.pc = "scanned" =>
        LET image == raster.image[1]
        IN  IF image.width >= 1
            THEN /\ Len(raster.bitmap) = image.height
                 /\ \A r \in DOMAIN raster.bitmap :
                        Len(raster.bitmap[r]) = (image.width + 7) \div 8
            ELSE raster.bitmap = <<>>

C17_Witness ==
    /\ raster.pc = "scanned"
    /\ raster.image[1].width = 17 /\ raster.image[1].height = 3
    /\ Len(raster.bitmap) = 3
    /\ Len(raster.bitmap[3]) = 3

\* Bit number bitIndex (0 = least significant) of a byte.
BitOf(byte, bitIndex) == (byte \div (2 ^ bitIndex)) % 2

\* C18: in every row y of the bitmap and for every bit column x from 0 to
\* 8 * rowBytes - 1, bit 7 - (x mod 8) of byte floor(x / 8) is 1 exactly when
\* x is less than the image width and the red value of pixel (x, y) is less
\* than 50; the padding bits beyond the width are 0.
C18_MsbFirstPacking ==
    raster.pc = "scanned" =>
        LET image == raster.image[1]
        IN  \A r \in DOMAIN raster.bitmap :
                \A x \in 0..(8 * Len(raster.bitmap[r]) - 1) :
                    BitOf(raster.bitmap[r][(x \div 8) + 1], 7 - (x % 8)) = 1
                        <=> (x < image.width /\ image.red[image.width * (r - 1) + x] < 50)

C18_Witness ==
    /\ raster.pc = "scanned"
    /\ raster.image[1].width = 9 /\ raster.image[1].height = 2
    /\ raster.image[1].red[9 + 8] = 49
    /\ raster.image[1].red[9 + 7] = 50
    /\ raster.bitmap[2][2] = 128
    /\ BitOf(raster.bitmap[2][1], 0) = 0

\* C19: on a platform that is neither Windows nor macOS nor Linux no call
\* ever starts a process to enumerate printers, and a call on an instance
\* without a target that got as far as sending is rejected with the
\* unsupported-platform error without any input/output operation: no
\* enumeration answered, no transport was invoked.
C19_UnsupportedPlatformFails ==
    (~IS_WINDOWS /\ ~IS_MACOS /\ ~IS_LINUX) =>
        \A c \in Calls :
            /\ \A e \in Range(calls[c].io) : ~IsEnumeration(e)
            /\ ( /\ Undetermined
                 /\ calls[c].pc \notin {"idle", "converted"}
                 /\ calls[c].error \notin {"EmptyImageBuffer", "InvalidPrintCount"} )
               => /\ calls[c].pc \in {"listUnsupported", "rejected"}
                  /\ calls[c].pc = "rejected" => calls[c].error = "UnsupportedOS"
                  /\ calls[c].io = <<>>
                  /\ ~calls[c].listed
                  /\ config.interface = ctorArg[1].interface

C19_Witness ==
    /\ platform = "freebsd"
    /\ Undetermined
    /\ \E c \in Calls :
           /\ calls[c].via = "print"
           /\ calls[c].pc = "rejected"
           /\ calls[c].error = "UnsupportedOS"
           /\ calls[c].io = <<>>

\* C20: every buffer handed to a transport starts with 313 ESC bytes, then
\* ESC '*', ESC 'B' 0, ESC 'D' and one byte, ESC 'L' and two bytes, ESC 'h',
\* ESC 'e', in this order and with nothing between them, and byte 330 is the
\* SYN (0x16) that opens the first raster line.
C20_HeaderPrefix ==
    \A c \in Calls : \A data \in Payloads(c) :
        /\ Len(data) >= 330
        /\ \A i \in 1..313 : data[i] = 27
        /\ SubSeq(data, 314, 320) = <<27, 42, 27, 66, 0, 27, 68>>
        /\ data[321] \in 0..255
        /\ SubSeq(data, 322, 323) = <<27, 76>>
        /\ data[324] \in 0..255 /\ data[325] \in 0..255
        /\ SubSeq(data, 326, 329) = <<27, 104, 27, 101>>
        /\ data[330] = 22

C20_Witness ==
    \E c \in Calls :
        /\ calls[c].pc = "resolved"
        /\ calls[c].image = "mixed2x9"
        /\ \E data \in Payloads(c) :
               /\ data[313] = 27 /\ data[314] = 27 /\ data[315] = 42
               /\ data[321] = 2
               /\ data[329] = 101 /\ data[330] = 22

\* The raster lines of one copy, from row r on: 0x16 and the row's bytes.
RECURSIVE RasterLines(_, _)
RasterLines(rows, r) ==
    IF r > Len(rows) THEN <<>>
    ELSE (<<22>> \o rows[r]) \o RasterLines(rows, r + 1)

\* Copies k..n of the job: the raster lines, then ESC 'G' (71), or ESC 'E'
\* (69) after the last copy.
RECURSIVE CopiesFrom(_, _, _)
CopiesFrom(rows, k, n) ==
    IF k > n THEN <<>>
    ELSE RasterLines(rows, 1) \o <<27, IF k = n THEN 69 ELSE 71>>
             \o CopiesFrom(rows, k + 1, n)

\* C21: in every buffer handed to a transport, the bytes after the 329
\* header bytes are printCount copies in order, each copy being every row of
\* the bitmap from the first to the last as 0x16 followed by the row's bytes,
\* followed by ESC 'G' for every copy but the last and ESC 'E' for the last,
\* which ends the buffer; the length is
\* 329 + printCount * (rows * (1 + rowBytes) + 2).
C21_CopiesLayout ==
    \A c \in Calls : \A data \in Payloads(c) :
        LET rows == RowsOf(c)
            n == calls[c].printCount
        IN  /\ Len(data) = 329 + n * (Len(rows) * (1 + Len(rows[1])) + 2)
            /\ SubSeq(data, 330, Len(data)) = CopiesFrom(rows, 1, n)
            /\ SubSeq(data, Len(data) - 1, Len(data)) = <<27, 69>>

C21_Witness ==
    \E c \in Calls : \E data \in Payloads(c) :
        /\ calls[c].pc = "resolved"
        /\ calls[c].image = "mixed2x9"
        /\ calls[c].printCount = 2
        /\ Len(data) = 345
        /\ data[330] = 22 /\ data[333] = 22
        /\ SubSeq(data, 336, 338) = <<27, 71, 22>>
        /\ SubSeq(data, 344, 345) = <<27, 69>>

\* C22: the two bytes after ESC 'L' in the header init builds are the most
\* significant and the least significant byte of the label length, and
\* msb * 256 + lsb is the number of scanlines.
C22_LabelLengthField ==
    encoder.pc = "done" =>
        LET header == BufferConcat(encoder.chunks)
        IN  /\ SubSeq(header, 322, 323) = <<27, 76>>
            /\ header[324] * 256 + header[325] = encoder.labelLength

\* The positions in call c's input/output log of the enumerations, and of
\* the operations that start a delivery.
EnumerationsOf(c) == {i \in DOMAIN calls[c].io : IsEnumeration(calls[c].io[i])}

IsDeliveryStart(e) ==
    \/ e.op \in {"net.connect", "fs.writeFile"}
    \/ e.op = "spawn" /\ e.args[1] \in {"lp", "RawPrint.exe"}

DeliveriesOf(c) == {i \in DOMAIN calls[c].io : IsDeliveryStart(calls[c].io[i])}

\* C23: a call whose discovery found a matching printer has enumerated
\* exactly once, as its first operation, and has started exactly one
\* delivery: RawPrint.exe with the printer's deviceId on Windows, lp -d with
\* the deviceId elsewhere; this stays so after the delivery has failed.
C23_OneDiscoveryOneDelivery ==
    \A c \in Calls :
        calls[c].found # 0 =>
            LET io == calls[c].io
                deviceId == calls[c].printers[calls[c].found].deviceId
            IN  /\ EnumerationsOf(c) = {1}
                /\ Cardinality(DeliveriesOf(c)) = 1
                /\ \A i \in DeliveriesOf(c) :
                       /\ io[i].op = "spawn"
                       /\ IF IS_WINDOWS
                          THEN io[i].args[1] = "RawPrint.exe" /\ io[i].args[2] = deviceId
                          ELSE io[i].args = <<"lp", "-d", deviceId>>
                /\ config.interface = IF IS_WINDOWS THEN Some("WINDOWS") ELSE Some("CUPS")
                /\ calls[c].pc \in {"lp", "rawprint", "resolved", "rejected"}

C23_Witness ==
    \E c \in Calls :
        /\ IS_WINDOWS
        /\ calls[c].found = 2
        /\ calls[c].pc = "rejected"
        /\ calls[c].report = "exitNonZero"
        /\ EnumerationsOf(c) = {1}
        /\ Cardinality(DeliveriesOf(c)) = 1
        /\ DeliveredTo(c) = {"My_Dymo"}

\* The interface the instance was constructed with.
ConfiguredInterface == ctorArg[1].interface[1]

\* The operations that belong to the transport of an interface.
TransportOps(interface) ==
    CASE interface = "NETWORK" -> {"net.connect", "socket.write", "socket.end"}
      [] interface = "CUPS" -> {"spawn"}
      [] interface = "WINDOWS" -> {"fs.writeFileSync", "spawn", "fs.unlinkSync"}
      [] interface = "DEVICE" -> {"fs.writeFile"}

SpawnedCommand(interface) ==
    CASE interface = "CUPS" -> "lp"
      [] interface = "WINDOWS" -> "RawPrint.exe"
      [] OTHER -> ""

\* C24: on an instance constructed with interface NETWORK, CUPS, WINDOWS or
\* DEVICE no call enumerates printers, every operation of a call belongs to
\* the transport of that interface (socket; lp; temporary file and
\* RawPrint.exe; device file), at most one delivery is started per call, and
\* a call that has resolved has started exactly one.
C24_ConfiguredTransportOnly ==
    (instance = "ok" /\ ctorArg # Undefined /\ Truthy(ctorArg[1].interface)) =>
        \A c \in Calls :
            /\ ~calls[c].listed /\ calls[c].pc \notin {"listing", "listUnsupported"}
            /\ \A e \in Range(calls[c].io) :
                   /\ ~IsEnumeration(e)
                   /\ e.op \in TransportOps(ConfiguredInterface)
                   /\ e.op = "spawn" => e.args[1] = SpawnedCommand(ConfiguredInterface)
            /\ Cardinality(DeliveriesOf(c)) <= 1
            /\ calls[c].pc \in {"connecting", "netWriting", "lp", "rawprint", "writing",
                                "resolved"}
                   => Cardinality(DeliveriesOf(c)) = 1
            /\ config.interface = ctorArg[1].interface

C24_Witness ==
    /\ instance = "ok" /\ ctorArg # Undefined
    /\ ctorArg[1].interface = Some("DEVICE")
    /\ \E c \in Calls :
           /\ calls[c].pc = "resolved"
           /\ Len(calls[c].io) = 1
           /\ calls[c].io[1].op = "fs.writeFile"
           /\ calls[c].io[1].args = <<"/dev/usb/lp0">>

\* What the listing is expected to report, written out for the rows and the
\* probe outputs of the catalogue.
ExpectedDeviceId(row) ==
    IF row = <<"D", "Y", "M", "O", "_", "4", "5", "0">> THEN <<"D", "Y", "M", "O", "_", "4", "5", "0">> ELSE IF row = <<" ", "H", "P", "_", "_", "1", " ">> THEN <<"H", "P", "_", "_", "1">> ELSE <<>>

ExpectedDerivedName(row) ==
    IF row = <<"D", "Y", "M", "O", "_", "4", "5", "0">> THEN <<"D", "Y", "M", "O", " ", "4", "5", "0">> ELSE IF row = <<" ", "H", "P", "_", "_", "1", " ">> THEN <<"H", "P", " ", "1">> ELSE <<>>

ExpectedDescription(value) ==
    IF value = <<"i", "d", "l", "e", "\n", "\t", "D", "e", "s", "c", "r", "i", "p", "t", "i", "o", "n", ":", " ", "D", "y", "m", "o", "\n">> THEN Some(<<"D", "y", "m", "o">>)
    ELSE IF value = <<"d", "e", "s", "c", "r", "i", "p", "t", "i", "o", "n", ":", "\n", "D", "E", "S", "C", "R", "I", "P", "T", "I", "O", "N", ":", " ", "B", " ", "d", "e", "s", "c", "r", "i", "p", "t", "i", "o", "n", ":", "x", "\n">> THEN Some(<<"B", " ", "x">>)
    ELSE Undefined

IsBlankRow(row) == \A k \in DOMAIN row : row[k] = " "

\* The non-blank rows of the enumeration output, in its order.
ListedRows == SelectSeq(lister.rows, LAMBDA row : ~IsBlankRow(row))

ProbeFailedOrEmpty(idx) ==
    \/ lister.probes[idx][1].status = "rejected"
    \/ ExpectedDescription(lister.probes[idx][1].value) = Undefined

\* C25: once `lpstat -e` has succeeded the listing is never rejected, however
\* many probes fail; it resolves with one entry per non-blank row, and an
\* entry whose probe failed or gave no description keeps the name derived
\* from its deviceId (underscores replaced by spaces).
C25_ListingSurvivesProbeFailures ==
    /\ lister.pc \in {"probing", "resolved"} =>
           Len(lister.printers) = Len(ListedRows)
    /\ lister.pc = "rejected" => lister.probes = <<>> /\ lister.stdout = <<>>
    /\ lister.pc = "resolved" =>
           /\ Len(lister.result) = Len(ListedRows)
           /\ \A idx \in DOMAIN lister.result :
                  ProbeFailedOrEmpty(idx) =>
                      /\ lister.result[idx].deviceId = ExpectedDeviceId(ListedRows[idx])
                      /\ lister.result[idx].name = ExpectedDerivedName(ListedRows[idx])

C25_Witness ==
    /\ lister.pc = "resolved"
    /\ Len(lister.rows) = 2
    /\ Len(lister.result) = 1
    /\ lister.probes[1][1].status = "rejected"
    /\ lister.result[1].name = <<"H", "P", " ", "1">>

\* C30: whatever the order in which the probes complete, the description of
\* probe i goes to printer i only, and the list returned keeps the order and
\* the deviceIds of the enumeration output.
C30_DescriptionsByIndex ==
    lister.pc = "resolved" =>
        /\ Len(lister.result) = Len(ListedRows)
        /\ \A idx \in DOMAIN lister.result :
               /\ lister.result[idx].deviceId = ExpectedDeviceId(ListedRows[idx])
               /\ lister.result[idx].name =
                      IF lister.probes[idx][1].status = "fulfilled"
                         /\ ExpectedDescription(lister.probes[idx][1].value) # Undefined
                      THEN ExpectedDescription(lister.probes[idx][1].value)[1]
                      ELSE ExpectedDerivedName(ListedRows[idx])

C30_Witness ==
    /\ lister.pc = "resolved"
    /\ Len(lister.order) >= 2
    /\ lister.order[1] = 2 /\ lister.order[2] = 1
    /\ lister.result[1].deviceId = <<"D", "Y", "M", "O", "_", "4", "5", "0">>
    /\ lister.result[1].name = <<"D", "y", "m", "o">>
    /\ lister.result[2].deviceId = <<"H", "P", "_", "_", "1">>
    /\ lister.result[2].name = <<"B", " ", "x">>

\* The operations of call c's log, by name.
OpsOf(c) == [i \in DOMAIN calls[c].io |-> calls[c].io[i].op]

\* C26: a call on an instance configured with interface NETWORK connects to
\* the configured host and port, to localhost when the host is unset and to
\* port 9100 when the port is unset; the buffer is written, whole, only once
\* the connection is established; the socket is closed after the write has
\* completed, and also after an 'error' or a 'timeout' event.
C26_NetworkDelivery ==
    (instance = "ok" /\ ctorArg # Undefined /\ ctorArg[1].interface = Some("NETWORK")) =>
        \A c \in Calls :
            LET io == calls[c].io
                host == IF ctorArg[1].host = Undefined THEN "localhost" ELSE ctorArg[1].host[1]
                port == IF ctorArg[1].port = Undefined THEN 9100 ELSE ctorArg[1].port[1]
            IN  /\ io # <<>> =>
                      /\ io[1].op = "net.connect"
                      /\ io[1].args = <<host>> /\ io[1].n = port
                /\ calls[c].pc = "connecting" => OpsOf(c) = <<"net.connect">>
                /\ \A i \in DOMAIN io :
                       io[i].op = "socket.write" =>
                           /\ i = 2
                           /\ io[i].data = OwnBuffer(c)
                           /\ calls[c].report # ""
                /\ calls[c].pc = "netWriting" =>
                       OpsOf(c) = <<"net.connect", "socket.write">>
                /\ calls[c].pc = "resolved" =>
                       OpsOf(c) = <<"net.connect", "socket.write", "socket.end">>
                /\ (calls[c].pc = "rejected" /\ calls[c].error \in {"error", "timeout"}) =>
                       /\ io # <<>>
                       /\ io[Len(io)].op = "socket.end"
                       /\ Cardinality({i \in DOMAIN io : io[i].op = "socket.end"}) = 1

\* A call without host and port that connected to localhost:9100, wrote its
\* buffer and closed the socket.
C26_Witness ==
    /\ instance = "ok" /\ ctorArg # Undefined
    /\ ctorArg[1].interface = Some("NETWORK")
    /\ ctorArg[1].host = Undefined /\ ctorArg[1].port = Undefined
    /\ \E c \in Calls :
           /\ calls[c].pc = "resolved"
           /\ calls[c].report = "written"
           /\ calls[c].io[1] = IoEvent("net.connect", <<"localhost">>, 9100, <<>>)
           /\ calls[c].io[2].op = "socket.write"
           /\ Len(calls[c].io[2].data) > 0
           /\ calls[c].io[3].op = "socket.end"

\* C27: in every buffer a call of print() hands to a transport, the number
\* of data bytes each scanline carries after its 0x16 marker is the value of
\* the bytes-per-line field of that buffer (byte 321, ESC 'D' n), so that the
\* buffer is the header followed by printCount copies of rows of 1 + n bytes
\* and a form-feed.
C27_ScanlinesMatchHeader ==
    \A c \in Calls : \A data \in Payloads(c) :
        calls[c].via = "print" =>
            /\ \A r \in DOMAIN RowsOf(c) : Len(RowsOf(c)[r]) = data[321]
            /\ Len(data) = 329 + calls[c].printCount
                                   * (Len(RowsOf(c)) * (1 + data[321]) + 2)

\* Every stdout chunk the child produced, in order.
StdoutProduced == TextOf(SelectSeq(proc.events, IsStdout))

\* C28: when the child has exited with status 0 and execute() has resolved,
\* the string it resolved with holds every stdout chunk the child produced,
\* whether the 'data' events came before or after the 'exit' event.
C28_ResolvedStdoutComplete ==
    (proc.promise = "resolved" /\ proc.value.kind = "ok") =>
        proc.value.stdout = StdoutProduced

\* The identifier the configured interface needs: deviceId for CUPS and
\* WINDOWS, device for DEVICE.
IdentifierOf(cfg) ==
    IF cfg.interface = Some("DEVICE") THEN cfg.device ELSE cfg.deviceId

\* C29: on an instance configured with interface CUPS, WINDOWS or DEVICE
\* whose identifier (deviceId, deviceId, device) is missing or empty, no
\* call writes a file or starts a process, and a call that has reached the
\* transport is rejected.
C29_MissingIdentifierRejected ==
    ( /\ instance = "ok" /\ ctorArg # Undefined
      /\ ctorArg[1].interface \in {Some("CUPS"), Some("WINDOWS"), Some("DEVICE")}
      /\ ~Truthy(IdentifierOf(ctorArg[1])) ) =>
        \A c \in Calls :
            /\ \A e \in Range(calls[c].io) :
                   e.op \notin {"fs.writeFileSync", "fs.writeFile", "spawn"}
            /\ calls[c].pc \notin {"lp", "rawprint", "writing", "resolved"}

====
